---------------------------- MODULE Spec2Model ----------------------------
(***************************************************************************)
(* ManualChatTarget (pyrit/prompt_target/manual_chat_target.py): a prompt  *)
(* target that shows the prompt to a human in a Tk dialog and returns the  *)
(* typed reply.                                                            *)
(*                                                                         *)
(* Processes of the model:                                                 *)
(*   - the caller's asyncio event loop, which runs one coroutine at a time *)
(*     (send_prompt_async of each call, and an independent no-op task);    *)
(*   - one executor worker thread per delegated call, running gui_input;   *)
(*   - the human, who types into, submits or closes an open dialog.        *)
(*                                                                         *)
(* tkinter semantics the source relies on (tkinter/__init__.py):           *)
(*   - tk.Tk() makes a new Tcl interpreter owned by the creating thread    *)
(*     and becomes tkinter._default_root only when that is None;           *)
(*   - tk.StringVar() without master lives in the interpreter of           *)
(*     tkinter._default_root, and raises RuntimeError when there is none;  *)
(*   - an Entry's textvariable is looked up by NAME in the interpreter of  *)
(*     the Entry's own window;                                             *)
(*   - Tk.destroy() (also bound to the window's close button) resets       *)
(*     _default_root to None when the destroyed window is the default      *)
(*     root, and ends that window's mainloop;                              *)
(*   - a call into an interpreter from another thread is served by the     *)
(*     owning thread's mainloop and raises RuntimeError when the owner is  *)
(*     not in its mainloop; an exception inside a Tk callback is reported  *)
(*     on stderr and does not leave mainloop.                              *)
(***************************************************************************)
EXTENDS Naturals, Sequences, FiniteSets

MaxCalls == 2

Calls == 1 .. MaxCalls

\* The text the human can have in the input field when submitting.
Texts == {"", "a", "b"}

\* A Tcl variable that does not exist in an interpreter.
Unset == "<unset>"

Convs == {"c1", "c2"}

Prompt(cid) == IF cid = "c1" THEN "hello" ELSE "hi"

Piece(cid, v, dt) ==
  [conversation_id |-> cid, converted_value |-> v, converted_value_data_type |-> dt]

\* prompt_request.request_pieces of the requests the host may send.
ValidRequests == { <<Piece(cid, Prompt(cid), "text")>> : cid \in Convs }

InvalidRequests ==
  { <<>>,
    <<Piece("c1", "hello", "image")>>,
    <<Piece("c1", "hello", "text"), Piece("c1", "hi", "text")>> }

Requests == ValidRequests \cup InvalidRequests

\* Optional[str]
None == [isNone |-> TRUE, str |-> ""]
Str(s) == [isNone |-> FALSE, str |-> s]

\* Python truthiness of an Optional[str]: `not resp_text`.
Falsy(v) == v.isNone \/ v.str = ""

VARIABLES
  pc,            \* position of each send_prompt_async coroutine
  request,       \* request_pieces of each call
  outcome,       \* what each call returned or raised
  running,       \* the call whose coroutine occupies the event loop (0: none)
  noop,          \* the independent no-op task on the same event loop
  future,        \* the executor future each call awaits
  wpc,           \* position of each worker thread inside gui_input
  default_root,  \* tkinter._default_root (0: None), shared by all threads
  window,        \* gui_input's local `window` of each call
  user_input,    \* the window whose interpreter holds the call's StringVar (0: none)
  tclvars,       \* tclvars[i][n]: value of the variable named by call n in window i's interpreter
  prompt_text,   \* the text shown read-only in each dialog
  result,        \* gui_input's local list `result`
  resolution,    \* how the human ended each dialog
  reported,      \* a callback exception of the dialog was reported on stderr
  alone          \* history: the call has not overlapped any other call

vars == <<pc, request, outcome, running, noop, future, wpc, default_root, window,
          user_input, tclvars, prompt_text, result, resolution, reported, alone>>

NoOutcome == [kind |-> "none", response |-> <<>>]
Raised(kind) == [kind |-> kind, response |-> <<>>]
Returned(resp) == [kind |-> "response", response |-> resp]

NoFuture == [state |-> "none", value |-> None, exc |-> ""]

Init ==
  /\ pc = [c \in Calls |-> "idle"]
  /\ request = [c \in Calls |-> <<>>]
  /\ outcome = [c \in Calls |-> NoOutcome]
  /\ running = 0
  /\ noop = "pending"
  /\ future = [c \in Calls |-> NoFuture]
  /\ wpc = [c \in Calls |-> "none"]
  /\ default_root = 0
  /\ window = [c \in Calls |-> "none"]
  /\ user_input = [c \in Calls |-> 0]
  /\ tclvars = [i \in Calls |-> [n \in Calls |-> Unset]]
  /\ prompt_text = [c \in Calls |-> ""]
  /\ result = [c \in Calls |-> <<>>]
  /\ resolution = [c \in Calls |-> "none"]
  /\ reported = [c \in Calls |-> FALSE]
  /\ alone = [c \in Calls |-> FALSE]

----------------------------------------------------------------------------
\* Pure functions

\* Variant of _validate_request without the data type check.
ValidateNoTypeCheck(req) ==
  IF Len(req) # 1 THEN "single" ELSE "ok"

\* _validate_request: "ok" or the ValueError it raises.
validate_request(req) ==
  IF Len(req) # 1 THEN "single"
  ELSE IF req[1].converted_value_data_type # "text" THEN "text"
  ELSE "ok"

\* pyrit.models.construct_response_from_request: one response piece per text,
\* carrying the request piece's conversation id.
construct_response_from_request(req_piece, response_text_pieces) ==
  [i \in 1 .. Len(response_text_pieces) |->
     [conversation_id |-> req_piece.conversation_id,
      role |-> "assistant",
      converted_value |-> response_text_pieces[i],
      converted_value_data_type |-> "text"]]

\* The worker is in window.mainloop(): its interpreter serves calls of other threads.
Dispatching(i) == i \in Calls /\ wpc[i] = "mainloop"

InFlight(c) == pc[c] \in {"running", "awaiting"}


----------------------------------------------------------------------------
\* The event loop: send_prompt_async and the no-op task

\* The host issues send_prompt_async(prompt_request = req): the event loop starts
\* running the coroutine of call c. Calls are numbered in the order of issue.
Call(c, req) ==
  /\ running = 0
  /\ pc[c] = "idle"
  /\ \A d \in Calls : d < c => pc[d] # "idle"
  /\ pc' = [pc EXCEPT ![c] = "running"]
  /\ request' = [request EXCEPT ![c] = req]
  /\ running' = c
  /\ alone' = [d \in Calls |->
                 IF d = c THEN \A e \in Calls : ~InFlight(e)
                 ELSE alone[d] /\ ~InFlight(d)]
  /\ UNCHANGED <<outcome, noop, future, wpc, default_root, window, user_input,
                 tclvars, prompt_text, result, resolution, reported>>

\* Variant: gui_input called on the event loop's own thread keeps it occupied.
BlockingDelegate(c) == c

\* The value of `running` once the coroutine awaits run_in_executor: the blocking
\* gui_input runs on an executor thread and the event loop is released.
AfterDelegate(c) == 0

\* send_prompt_async up to its await: validation raises ValueError, or
\* gui_input is handed to the executor and the coroutine suspends.
RunToAwait(c) ==
  /\ pc[c] = "running"
  /\ running = c
  /\ LET v == validate_request(request[c]) IN
       IF v # "ok"
       THEN /\ pc' = [pc EXCEPT ![c] = "done"]
            /\ outcome' = [outcome EXCEPT ![c] = Raised("ValueError")]
            /\ running' = 0
            /\ UNCHANGED <<future, wpc>>
       ELSE /\ pc' = [pc EXCEPT ![c] = "awaiting"]
            /\ future' = [future EXCEPT ![c].state = "pending"]
            /\ wpc' = [wpc EXCEPT ![c] = "queued"]
            /\ running' = AfterDelegate(c)
            /\ UNCHANGED outcome
  /\ UNCHANGED <<request, noop, default_root, window, user_input, tclvars,
                 prompt_text, result, resolution, reported, alone>>

\* The independent no-op task runs when the event loop is free.
NoopRun ==
  /\ running = 0
  /\ noop = "pending"
  /\ noop' = "done"
  /\ UNCHANGED <<pc, request, outcome, running, future, wpc, default_root, window,
                 user_input, tclvars, prompt_text, result, resolution, reported, alone>>

\* Variant: the request piece kept in one slot shared by all calls (the latest
\* valid request issued).
SharedRequestPiece(c) ==
  LET last == CHOOSE d \in Calls :
                /\ pc[d] # "idle"
                /\ Len(request[d]) = 1
                /\ \A e \in Calls : (pc[e] # "idle" /\ Len(request[e]) = 1) => e <= d
  IN request[last][1]

\* request = prompt_request.request_pieces[0], a local of the coroutine.
RequestPiece(c) == request[c][1]

\* Variant: `if resp_text is None`
IsNoneOnly(v) == v.isNone

\* `if not resp_text`
EmptyResponse(v) == Falsy(v)

\* The coroutine resumes with the worker's result (or exception) and finishes.
Resume(c) ==
  /\ running = 0
  /\ pc[c] = "awaiting"
  /\ future[c].state \in {"result", "exception"}
  /\ pc' = [pc EXCEPT ![c] = "done"]
  /\ outcome' = [outcome EXCEPT ![c] =
       IF future[c].state = "exception" THEN Raised(future[c].exc)
       ELSE IF EmptyResponse(future[c].value) THEN Raised("EmptyResponseException")
       ELSE Returned(construct_response_from_request(RequestPiece(c),
                                                     <<future[c].value.str>>))]
  /\ UNCHANGED <<request, running, noop, future, wpc, default_root, window, user_input,
                 tclvars, prompt_text, result, resolution, reported, alone>>

----------------------------------------------------------------------------
\* The worker thread: gui_input

\* window = tk.Tk(): the new window becomes the default root only if there is none.
CreateWindow(c) ==
  /\ wpc[c] = "queued"
  /\ wpc' = [wpc EXCEPT ![c] = "tk"]
  /\ window' = [window EXCEPT ![c] = "alive"]
  /\ default_root' = IF default_root = 0 THEN c ELSE default_root
  /\ UNCHANGED <<pc, request, outcome, running, noop, future, user_input, tclvars,
                 prompt_text, result, resolution, reported, alone>>

\* The master of user_input = tk.StringVar(): no master is passed, so it is
\* tkinter._default_root at that moment, whichever call's window that is.
StringVarMaster(c) == default_root

\* user_input = tk.StringVar(): the variable is created (as "") in the master's
\* interpreter. A master owned by another thread serves the call from its
\* mainloop; the caller waits for a master that is still building its widgets.
CreateVar(c) ==
  /\ wpc[c] = "tk"
  /\ LET m == StringVarMaster(c) IN
       /\ m # 0
       /\ m = c \/ Dispatching(m)
       /\ user_input' = [user_input EXCEPT ![c] = m]
       /\ tclvars' = [tclvars EXCEPT ![m][c] = ""]
  /\ wpc' = [wpc EXCEPT ![c] = "var"]
  /\ UNCHANGED <<pc, request, outcome, running, noop, future, default_root, window,
                 prompt_text, result, resolution, reported, alone>>

\* user_input = tk.StringVar() with no default root left: RuntimeError leaves
\* gui_input, the window is never shown nor destroyed, the future fails.
CreateVarFails(c) ==
  /\ wpc[c] = "tk"
  /\ StringVarMaster(c) = 0
  /\ wpc' = [wpc EXCEPT ![c] = "raised"]
  /\ future' = [future EXCEPT ![c] = [state |-> "exception", value |-> None,
                                      exc |-> "RuntimeError"]]
  /\ running' = IF running = c THEN 0 ELSE running
  /\ UNCHANGED <<pc, request, outcome, noop, default_root, window, user_input, tclvars,
                 prompt_text, result, resolution, reported, alone>>

\* Variant: the list of the previous call is reused.
StaleResult(c) == IF c > 1 THEN result[c - 1] ELSE <<>>

\* result = [], a fresh list of this call.
FreshResult(c) == <<>>

\* result = [], the prompt display, the Entry bound by name to user_input in the
\* window's own interpreter, the Submit button and <Return> binding; then
\* window.mainloop() starts.
EnterMainloop(c) ==
  /\ wpc[c] = "var"
  /\ wpc' = [wpc EXCEPT ![c] = "mainloop"]
  /\ result' = [result EXCEPT ![c] = FreshResult(c)]
  /\ prompt_text' = [prompt_text EXCEPT ![c] = RequestPiece(c).converted_value]
  /\ tclvars' = [tclvars EXCEPT ![c][c] = IF @ = Unset THEN "" ELSE @]
  /\ UNCHANGED <<pc, request, outcome, running, noop, future, default_root, window,
                 user_input, resolution, reported, alone>>

\* window.destroy(): the default root is reset when it is this window.
TkDestroy(c) == IF default_root = c THEN 0 ELSE default_root

\* The human, with text t in the input field, presses the Submit button or
\* Return (via); both run on_submit in the mainloop. The Entry has written t to
\* its variable in the window's own interpreter; user_input.get() reads the
\* variable in the interpreter of its master.
Submit(c, via, t) ==
  /\ wpc[c] = "mainloop"
  /\ tclvars' = [tclvars EXCEPT ![c][c] = t]
  /\ LET m == user_input[c] IN
       IF m = c \/ Dispatching(m)
       THEN /\ result' = [result EXCEPT ![c] = Append(@, tclvars'[m][c])]
            /\ window' = [window EXCEPT ![c] = "destroyed"]
            /\ default_root' = TkDestroy(c)
            /\ wpc' = [wpc EXCEPT ![c] = "exited"]
            /\ resolution' = [resolution EXCEPT ![c] = "submit"]
            /\ UNCHANGED reported
       ELSE \* get() raises inside the callback: reported, the dialog stays open
            /\ reported' = [reported EXCEPT ![c] = TRUE]
            /\ UNCHANGED <<result, window, default_root, wpc, resolution>>
  /\ UNCHANGED <<pc, request, outcome, running, noop, future, user_input,
                 prompt_text, alone>>

\* The human closes the window: no submission.
Dismiss(c) ==
  /\ wpc[c] = "mainloop"
  /\ window' = [window EXCEPT ![c] = "destroyed"]
  /\ default_root' = TkDestroy(c)
  /\ wpc' = [wpc EXCEPT ![c] = "exited"]
  /\ resolution' = [resolution EXCEPT ![c] = "close"]
  /\ UNCHANGED <<pc, request, outcome, running, noop, future, user_input, tclvars,
                 prompt_text, result, reported, alone>>

\* return result[0] if result else None
GuiInputValue(c) == IF result[c] # <<>> THEN Str(result[c][1]) ELSE None

\* mainloop has returned: gui_input returns and the executor completes the future.
Return(c) ==
  /\ wpc[c] = "exited"
  /\ wpc' = [wpc EXCEPT ![c] = "returned"]
  /\ future' = [future EXCEPT ![c] = [state |-> "result", value |-> GuiInputValue(c),
                                      exc |-> ""]]
  /\ running' = IF running = c THEN 0 ELSE running
  /\ UNCHANGED <<pc, request, outcome, noop, default_root, window, user_input, tclvars,
                 prompt_text, result, resolution, reported, alone>>

----------------------------------------------------------------------------

LoopStep(c) == RunToAwait(c) \/ Resume(c)

WorkerStep(c) ==
  CreateWindow(c) \/ CreateVar(c) \/ CreateVarFails(c) \/ EnterMainloop(c) \/ Return(c)

Next ==
  \/ \E c \in Calls, req \in Requests : Call(c, req)
  \/ \E c \in Calls : RunToAwait(c)
  \/ \E c \in Calls : Resume(c)
  \/ NoopRun
  \/ \E c \in Calls : CreateWindow(c)
  \/ \E c \in Calls : CreateVar(c)
  \/ \E c \in Calls : CreateVarFails(c)
  \/ \E c \in Calls : EnterMainloop(c)
  \/ \E c \in Calls, via \in {"button", "Return"}, t \in Texts : Submit(c, via, t)
  \/ \E c \in Calls : Dismiss(c)
  \/ \E c \in Calls : Return(c)

Spec == Init /\ [][Next]_vars

\* The requests and texts of the liveness specification: one valid request, one
\* rejected request, an empty and a non-empty submission.
FairRequests == { <<Piece("c1", Prompt("c1"), "text")>>, <<>> }

FairTexts == {"", "a"}

FairNext ==
  \/ \E c \in Calls, req \in FairRequests : Call(c, req)
  \/ \E c \in Calls : LoopStep(c)
  \/ NoopRun
  \/ \E c \in Calls : WorkerStep(c)
  \/ \E c \in Calls, t \in FairTexts : Submit(c, "button", t)
  \/ \E c \in Calls : Dismiss(c)

\* The event loop runs its ready tasks and the executor runs its threads; the
\* host and the human are free never to act.
FairSpec ==
  /\ Init /\ [][FairNext]_vars
  /\ WF_vars(NoopRun)
  /\ \A c \in Calls : WF_vars(LoopStep(c)) /\ WF_vars(WorkerStep(c))

----------------------------------------------------------------------------
\* Vocabulary of the properties

Issued(c) == pc[c] # "idle"

Completed(c) == pc[c] = "done"

\* The request breaks the shape invariant: not exactly one piece, or a piece
\* whose data type is not "text".
ShapeViolation(req) ==
  \/ Len(req) # 1
  \/ req[1].converted_value_data_type # "text"

\* The content of the dialog's input field at the moment of submission.
FieldAtSubmission(c) == tclvars[c][c]

\* The human submitted the dialog of call c.
HumanSubmitted(c) == resolution[c] = "submit"

\* The human closed the dialog of call c without a submission.
HumanDismissed(c) == resolution[c] = "close"

\* The response of call c is complete: exactly one piece, with text t.
SinglePieceResponse(c, t) ==
  /\ outcome[c].kind = "response"
  /\ Len(outcome[c].response) = 1
  /\ outcome[c].response[1].converted_value = t

\* A dialog session exists for call c.
SessionExists(c) == window[c] # "none"

\* The dialog of call c is on screen, waiting for the human.
SessionOpen(c) == wpc[c] = "mainloop"

\* The lifecycle state of the dialog session of call c.
SessionState(c) ==
  CASE wpc[c] \in {"none", "queued"} -> "None"
    [] wpc[c] \in {"tk", "var"} -> "Created"
    [] wpc[c] = "mainloop" -> "AwaitingInput"
    [] wpc[c] = "exited" /\ resolution[c] = "submit" -> "Submitted"
    [] wpc[c] = "exited" /\ resolution[c] = "close" -> "Dismissed"
    [] wpc[c] = "returned" -> "Destroyed"
    [] OTHER -> "Abandoned"

LifecycleSteps ==
  { <<"None", "Created">>, <<"Created", "AwaitingInput">>,
    <<"AwaitingInput", "Submitted">>, <<"AwaitingInput", "Dismissed">>,
    <<"Submitted", "Destroyed">>, <<"Dismissed", "Destroyed">> }

----------------------------------------------------------------------------
\* C1: a call whose request violates the shape invariant (piece count not 1,
\* zero included, or a non-text piece) fails with ValueError, and no dialog
\* session, worker or future is ever created for it.
C1_InvalidRequestRejectedBeforeDialog ==
  \A c \in Calls :
    (Issued(c) /\ ShapeViolation(request[c])) =>
      /\ ~SessionExists(c)
      /\ wpc[c] = "none"
      /\ future[c].state = "none"
      /\ \/ pc[c] = "running" /\ running = c
         \/ Completed(c) /\ outcome[c] = Raised("ValueError")

\* Calls rejected for a non-text piece and for a wrong piece count, none with a dialog.
C1_Witness ==
  \E c, d \in Calls :
    /\ Completed(c) /\ Len(request[c]) = 1 /\ ShapeViolation(request[c])
    /\ Completed(d) /\ Len(request[d]) # 1
    /\ outcome[c].kind = "ValueError" /\ outcome[d].kind = "ValueError"
    /\ ~SessionExists(c) /\ ~SessionExists(d)

\* C2: for a valid request, when the human submits non-empty text t (the content
\* of the input field at the moment of submission), the call returns a
\* response of exactly one piece whose value is t.
C2_SubmittedTextIsReturned ==
  \A c \in Calls :
    (Completed(c) /\ HumanSubmitted(c) /\ FieldAtSubmission(c) # "") =>
      SinglePieceResponse(c, FieldAtSubmission(c))

\* C3: for a valid request, when the human submits empty text, or dismisses the
\* dialog without a submission (gui_input returns None), the call fails with
\* EmptyResponseException and returns no response; both cases fail alike.
C3_EmptyOrDismissedFails ==
  \A c \in Calls :
    (Completed(c)
       /\ \/ HumanSubmitted(c) /\ FieldAtSubmission(c) = ""
          \/ HumanDismissed(c)) =>
      /\ outcome[c] = Raised("EmptyResponseException")
      /\ HumanDismissed(c) => future[c].value = None
      /\ HumanSubmitted(c) => future[c].value = Str("")

\* One call failed after an empty submission and another after a dismissal.
C3_Witness ==
  \E c, d \in Calls :
    /\ Completed(c) /\ HumanSubmitted(c) /\ FieldAtSubmission(c) = ""
    /\ Completed(d) /\ HumanDismissed(d)
    /\ outcome[c].kind = "EmptyResponseException"
    /\ outcome[d].kind = "EmptyResponseException"

\* C4: the call does not block the event loop. The no-op task completes whether
\* or not any dialog is ever resolved, and a call whose dialog has been
\* resolved completes.
C4_EventLoopNotBlocked ==
  /\ (noop = "pending") ~> (noop = "done")
  /\ \A c \in Calls : (resolution[c] # "none") ~> Completed(c)

\* The no-op task has completed while a call is suspended on its open dialog.
C4_Witness ==
  \E c \in Calls :
    /\ noop = "done"
    /\ pc[c] = "awaiting"
    /\ SessionOpen(c)
    /\ resolution[c] = "none"

\* C5: a response carries the conversation identifier of the request of its own
\* call and the text submitted in the dialog of its own call, and that dialog
\* showed the prompt of its own request.
C5_NoCrossTalk ==
  \A c \in Calls :
    outcome[c].kind = "response" =>
      /\ Len(request[c]) = 1
      /\ prompt_text[c] = request[c][1].converted_value
      /\ HumanSubmitted(c)
      /\ \A i \in DOMAIN outcome[c].response :
           /\ outcome[c].response[i].conversation_id = request[c][1].conversation_id
           /\ outcome[c].response[i].converted_value = FieldAtSubmission(c)

\* Two overlapping calls of different conversations both returned, with different texts.
C5_Witness ==
  \E c, d \in Calls :
    /\ c < d /\ ~alone[d]
    /\ outcome[c].kind = "response" /\ outcome[d].kind = "response"
    /\ request[c][1].conversation_id # request[d][1].conversation_id
    /\ FieldAtSubmission(c) # FieldAtSubmission(d)

\* C6: a completed call ended either in a typed failure (invalid request or empty
\* response) or in a complete response of exactly one non-empty text piece.
C6_NoPartialResponses ==
  \A c \in Calls :
    Completed(c) =>
      \/ outcome[c] = Raised("ValueError")
      \/ outcome[c] = Raised("EmptyResponseException")
      \/ /\ outcome[c].kind = "response"
         /\ Len(outcome[c].response) = 1
         /\ outcome[c].response[1].converted_value # ""

\* C7: a dialog session moves only along Created -> AwaitingInput ->
\* (Submitted | Dismissed) -> Destroyed; Submitted yields the typed text as the
\* result and Dismissed yields no result; the result holder is written at most once.
C7_DialogLifecycle ==
  /\ [][\A c \in Calls :
          SessionState(c)' # SessionState(c) =>
            <<SessionState(c), SessionState(c)'>> \in LifecycleSteps]_vars
  /\ [](\A c \in Calls :
          /\ Len(result[c]) <= 1
          /\ HumanSubmitted(c) => result[c] = <<FieldAtSubmission(c)>>
          /\ HumanDismissed(c) => result[c] = <<>>)

\* C8: a valid call has exactly one dialog, and it completes only after that
\* dialog has been resolved by a submit or a dismiss: while the dialog is
\* unresolved the call stays pending.
C8_CompletesOnlyAfterResolution ==
  \A c \in Calls :
    (Issued(c) /\ ~ShapeViolation(request[c]) /\ Completed(c)) =>
      /\ SessionExists(c)
      /\ resolution[c] # "none"

\* The outcome a call has by its own request and the human's action in its own dialog.
OwnOutcome(c) ==
  IF ShapeViolation(request[c]) THEN Raised("ValueError")
  ELSE IF HumanSubmitted(c) /\ FieldAtSubmission(c) # ""
  THEN Returned(<<[conversation_id |-> request[c][1].conversation_id,
                   role |-> "assistant",
                   converted_value |-> FieldAtSubmission(c),
                   converted_value_data_type |-> "text"]>>)
  ELSE Raised("EmptyResponseException")

\* C9: a call made after earlier calls have completed (successfully, rejected,
\* or with an empty response), and completing before the next one is issued, has
\* the outcome of a first call: it depends only on the call's own request and the
\* human's action in its own fresh dialog; completed calls leave no default
\* root behind.
C9_NoCrossCallState ==
  /\ \A c \in Calls :
       (Completed(c) /\ alone[c]) =>
         /\ outcome[c] = OwnOutcome(c)
         /\ ~ShapeViolation(request[c]) => resolution[c] # "none"
  /\ (\A c \in Calls : ~InFlight(c)) => default_root = 0

\* A retry after an empty-response failure returned the text typed on the retry.
C9_Witness ==
  \E c, d \in Calls :
    /\ c < d /\ alone[d]
    /\ outcome[c] = Raised("EmptyResponseException")
    /\ request[d] = request[c]
    /\ SinglePieceResponse(d, "a")

\* C10: two dialog sessions open at the same time each have their own window,
\* input variable and result holder; when calls do not overlap at most one
\* session is open.
C10_IndependentSessions ==
  /\ \A c, d \in Calls :
       (c # d /\ SessionOpen(c) /\ SessionOpen(d)) =>
         /\ window[c] = "alive" /\ window[d] = "alive"
         /\ user_input[c] = c /\ user_input[d] = d
  /\ (\A c \in Calls : alone[c] \/ ~Issued(c)) =>
       Cardinality({c \in Calls : SessionOpen(c)}) <= 1

============================================================================
